---- MODULE Spec2Model ----
(***************************************************************************)
(* Model of the call-batching adapter of src/src/vectorized.ts: the        *)
(* `vectorized` decorator (the specialization registry kept by             *)
(* reflect-metadata), VectorFunction.call (the dispatch) and               *)
(* ArrayVectorFunction (constructor and the elementwise fallback           *)
(* vectorizeSingularCall).                                                 *)
(*                                                                         *)
(* The operation classes the engine is applied to are the environment:    *)
(* Subtraction and Multiplication as in the test suites, and Checked, a    *)
(* subtype of Multiplication whose scalar method throws.  Every scalar     *)
(* method takes Arity numbers.                                             *)
(*                                                                         *)
(* Encoding.  An argument of a call is a record [arr, v]: a number x is    *)
(* [arr |-> FALSE, v |-> <<x>>] and an array is [arr |-> TRUE, v |-> the   *)
(* elements].  Positions are 0-based as in the source; the TLA+ sequence   *)
(* holding them is 1-based, so position p is element p + 1.                *)
(***************************************************************************)
EXTENDS Integers, Sequences, FiniteSets, TLC

\* ---------------------------------------------------------------- bounds
\* Number of positional parameters of every scalar method, and the longest
\* list of flags an engine is constructed with.
Arity == 3
\* Longest array passed at a vectorized position.
MaxLen == 2
\* Numbers passed as elements and as scalars are 1..MaxVal.
MaxVal == 2

Vals == 1..MaxVal

\* --------------------------------------------------------- JS numbers
\* NaN (also what `undefined` becomes in arithmetic) and the hole of a
\* `new Array(n)` are encoded as integers no computation on Vals produces.
NaN == 0 - 1000000
Hole == NaN - 1

JsSub(a, b) == IF a = NaN \/ b = NaN THEN NaN ELSE a - b
JsMul(a, b) == IF a = NaN \/ b = NaN THEN NaN ELSE a * b
\* a > b is false as soon as one side is NaN
JsGt(a, b) == a # NaN /\ b # NaN /\ a > b

Number(x) == [arr |-> FALSE, v |-> <<x>>]
Array(s) == [arr |-> TRUE, v |-> s]

RECURSIVE Fold(_, _, _)
\* args.reduce over a list of numbers, left to right, starting from acc
Fold(op, acc, s) ==
    IF s = <<>> THEN acc
    ELSE Fold(op, IF op = "sub" THEN JsSub(acc, Head(s))
                  ELSE JsMul(acc, Head(s)), Tail(s))

\* ------------------------------------------------------ the environment
Types == {"Subtraction", "Multiplication", "Checked"}
MethodNames == {"calc"}
\* the property keys a `vectorized` decorator is applied to: the scalar
\* method of the engines, and a second method of the operation classes
PropertyKeys == MethodNames \cup {"norm"}

NoParent == "Object"
\* class Checked extends Multiplication; the others extend Object
Parent(type) == IF type = "Checked" THEN "Multiplication" ELSE NoParent

\* names defined on the prototype of each class (the bulk function of
\* Subtraction is static: no instance has a member calc_vectorized for it)
OwnMembers(type) ==
    CASE type = "Subtraction" -> {"calc"}
      [] type = "Multiplication" -> {"calc", "calc_vectorized"}
      [] type = "Checked" -> {"calc", "calc_vectorized"}
      [] OTHER -> {}

Undefined == "undefined"

RECURSIVE GetMember(_, _)
\* target[name]: the member found along the prototype chain, named
\* "<Class>.<name>", or Undefined
GetMember(type, name) ==
    IF type = NoParent THEN Undefined
    ELSE IF name \in OwnMembers(type) THEN type \o "." \o name
    ELSE GetMember(Parent(type), name)

Ok(x) == [threw |-> FALSE, value |-> x, error |-> ""]
Throw(e) == [threw |-> TRUE, value |-> Hole, error |-> e]

\* The Arity numbers a scalar method sees when invoked with args: a missing
\* argument is undefined, and undefined, like an array where a number is
\* expected, counts as NaN.
Nums(args) ==
    [k \in 1..Arity |->
        IF k <= Len(args) /\ ~args[k].arr THEN args[k].v[1] ELSE NaN]

\* The scalar methods, on Arity numbers n:
\*   Subtraction.calc     n[1] - n[2] - ...
\*   Multiplication.calc  n[1] * n[2] * ...
\*   Checked.calc         as Multiplication.calc, but throws when n[1] > n[2]
\* (with Arity 1, n[2] is undefined and n[1] > n[2] is false)
Scalar(fn, n) ==
    CASE fn = "Subtraction.calc" -> Ok(Fold("sub", Head(n), Tail(n)))
      [] fn = "Multiplication.calc" -> Ok(Fold("mul", Head(n), Tail(n)))
      [] fn = "Checked.calc" ->
            IF Len(n) >= 2 /\ JsGt(n[1], n[2]) THEN Throw("RangeError")
            ELSE Ok(Fold("mul", Head(n), Tail(n)))
      [] OTHER -> Throw("TypeError")

\* One invocation of a scalar method with a list of arguments.
ApplyScalar(fn, args) == Scalar(fn, Nums(args))

\* the i-th element (0-based) an elementwise bulk function reads from one of
\* its arguments: a[i] of an array (undefined, hence NaN, past its end), the
\* number itself otherwise
ElementAt(p, i) ==
    IF p.arr THEN (IF i < Len(p.v) THEN p.v[i + 1] ELSE NaN) ELSE p.v[1]

ArrayPositions(params) == {p \in 1..Len(params) : params[p].arr}

\* a.length of the first array argument: the length of the bulk result
BulkLength(params) ==
    LET ps == ArrayPositions(params) IN
    IF ps = {} THEN 0
    ELSE Len(params[CHOOSE p \in ps : \A q \in ps : p <= q].v)

SameLengths(params) ==
    \A p, q \in ArrayPositions(params) : Len(params[p].v) = Len(params[q].v)

Row(params, i) == [k \in 1..Len(params) |-> ElementAt(params[k], i)]

OkBulk(s) == [threw |-> FALSE, result |-> s, error |-> ""]
ThrowBulk(e) == [threw |-> TRUE, result |-> <<>>, error |-> e]

\* One invocation of a bulk override with the arguments of a call.
\*   Subtraction.calc_vectorized, Multiplication.calc_static: static
\*     functions, elementwise over a.length, no length check;
\*   Multiplication.calc_vectorized: instance member, rejects arrays of
\*     different lengths itself;
\*   Checked.calc_vectorized: instance member overriding the former, throws
\*     what Checked.calc throws at the first offending element.
ApplyBulk(fn, params) ==
    LET n == BulkLength(params)
        rows == [k \in 1..n |-> Row(params, k - 1)]
    IN
    CASE fn = "Subtraction.calc_vectorized" ->
            OkBulk([k \in 1..n |-> Fold("sub", Head(rows[k]), Tail(rows[k]))])
      [] fn = "Multiplication.calc_static" ->
            OkBulk([k \in 1..n |-> Fold("mul", Head(rows[k]), Tail(rows[k]))])
      [] fn = "Multiplication.calc_vectorized" ->
            IF ~SameLengths(params) THEN ThrowBulk("ShapeError")
            ELSE OkBulk([k \in 1..n |-> Fold("mul", Head(rows[k]), Tail(rows[k]))])
      [] fn = "Checked.calc_vectorized" ->
            IF \E k \in 1..n : Len(rows[k]) >= 2 /\ JsGt(rows[k][1], rows[k][2])
            THEN ThrowBulk("RangeError")
            ELSE OkBulk([k \in 1..n |-> Fold("mul", Head(rows[k]), Tail(rows[k]))])
      [] OTHER -> ThrowBulk("TypeError")

\* the decorators the class definitions apply: [type, method, specialVersion]
DefaultVersion == [kind |-> "undefined", id |-> ""]
NameVersion(name) == [kind |-> "name", id |-> name]
FunctionVersion(fn) == [kind |-> "function", id |-> fn]

Decorations ==
    { [type |-> "Subtraction", method |-> "calc", specialVersion |-> DefaultVersion],
      [type |-> "Subtraction", method |-> "calc",
       specialVersion |-> FunctionVersion("Subtraction.calc_vectorized")],
      [type |-> "Multiplication", method |-> "calc", specialVersion |-> DefaultVersion],
      [type |-> "Multiplication", method |-> "calc",
       specialVersion |-> FunctionVersion("Multiplication.calc_static")] }

\* the decorators of a session that also decorates the second method, with
\* the name of a member Multiplication and Checked have
SessionDecorations ==
    Decorations \cup
    { [type |-> "Multiplication", method |-> "norm",
       specialVersion |-> NameVersion("calc_vectorized")] }

\* ------------------------------------------------- registry (decorator)
NoMetadata == [kind |-> "undefined", id |-> ""]

\* specialVersion ?? `${String(propertyKey)}_vectorized`
StoredVersion(specialVersion, propertyKey) ==
    IF specialVersion.kind = "undefined"
    THEN NameVersion(propertyKey \o "_vectorized")
    ELSE specialVersion

RECURSIVE GetMetadata(_, _, _)
\* Reflect.getMetadata(vectorizedKey, target, method): the entry of the
\* nearest class along the prototype chain of the target that has one
GetMetadata(md, type, method) ==
    IF type = NoParent THEN NoMetadata
    ELSE IF md[type][method].kind # "undefined" THEN md[type][method]
    ELSE GetMetadata(md, Parent(type), method)

\* JS truthiness of a metadata value: a function, or a non-empty string
Truthy(specialized) ==
    specialized.kind = "function" \/ (specialized.kind = "name" /\ specialized.id # "")

RECURSIVE MetadataHolder(_, _, _)
\* the class along the prototype chain whose registry entry GetMetadata finds
MetadataHolder(md, type, method) ==
    IF type = NoParent \/ md[type][method].kind # "undefined" THEN type
    ELSE MetadataHolder(md, Parent(type), method)

\* SpecializedFunction reading a named member off the declaring class
SpecializedFunctionEarlyBound(md, type, method) ==
    LET specialized == GetMetadata(md, type, method) IN
    IF Truthy(specialized)
    THEN (IF specialized.kind = "function" THEN specialized.id
          ELSE GetMember(MetadataHolder(md, type, method), specialized.id))
    ELSE Undefined

\* SpecializedFunction taking a declared name for a member without reading it
SpecializedFunctionUnchecked(md, type, method) ==
    LET specialized == GetMetadata(md, type, method) IN
    IF Truthy(specialized)
    THEN (IF specialized.kind = "function" THEN specialized.id
          ELSE type \o "." \o specialized.id)
    ELSE Undefined

\* SpecializedFunction honouring only direct function references
SpecializedFunctionNoNames(md, type, method) ==
    LET specialized == GetMetadata(md, type, method) IN
    IF specialized.kind = "function" THEN specialized.id ELSE Undefined

\* specializedFunction of VectorFunction.call: a function name, or Undefined
SpecializedFunction(md, type, method) ==
    LET specialized == GetMetadata(md, type, method) IN
    IF Truthy(specialized)
    THEN (IF specialized.kind = "function" THEN specialized.id
          ELSE GetMember(type, specialized.id))
    ELSE Undefined

\* --------------------------------------------------------------- engine
FlagLists == UNION {[1..n -> BOOLEAN] : n \in 0..Arity}
\* the descriptors of the engines a session calls repeatedly: one with a
\* static prefix, one with a non-vectorized position inside the window
SessionFlagLists == {<<FALSE, TRUE>>, <<TRUE, FALSE, TRUE>>}

RECURSIVE IndicesFrom(_, _)
\* flags.map((flag, index) => ...).filter(flag).map(index), from position p
IndicesFrom(flags, p) ==
    IF p >= Len(flags) THEN <<>>
    ELSE (IF flags[p + 1] THEN <<p>> ELSE <<>>) \o IndicesFrom(flags, p + 1)

VectorizedParameterIndices(flags) == IndicesFrom(flags, 0)

\* Math.min(...indices), for a non-empty list
MathMin(indices) ==
    CHOOSE m \in {indices[k] : k \in 1..Len(indices)} :
        \A k \in 1..Len(indices) : m <= indices[k]

NoEngine ==
    [exists |-> FALSE, method |-> "", vectorizedParameterFlags |-> <<>>,
     vectorizedParameterIndices |-> <<>>, sliceIndex |-> 0]

\* Constructor testing vectorizedParameterFlags.length instead of the number
\* of indices (Math.min() of no numbers is Infinity: every slice is empty)
ConstructorFlagsLength(method, flags) ==
    LET indices == VectorizedParameterIndices(flags) IN
    IF Len(flags) = 0
    THEN [error |-> "Must have at least one vectorized parameter", instance |-> NoEngine]
    ELSE [error |-> "",
          instance |-> [exists |-> TRUE, method |-> method,
                        vectorizedParameterFlags |-> flags,
                        vectorizedParameterIndices |-> indices,
                        sliceIndex |-> IF Len(indices) = 0 THEN Arity
                                       ELSE MathMin(indices)]]

\* ArrayVectorFunction constructor: the new instance, or the error thrown
Constructor(method, flags) ==
    LET indices == VectorizedParameterIndices(flags) IN
    IF Len(indices) = 0
    THEN [error |-> "Must have at least one vectorized parameter", instance |-> NoEngine]
    ELSE [error |-> "",
          instance |-> [exists |-> TRUE, method |-> method,
                        vectorizedParameterFlags |-> flags,
                        vectorizedParameterIndices |-> indices,
                        sliceIndex |-> MathMin(indices)]]

\* --------------------------------------------------------------- inputs
\* the array of length n counting up from s, cyclically within Vals
Ramp(n, s) == [k \in 1..n |-> ((s + k - 2) % MaxVal) + 1]

Arrays == {Array(Ramp(n, s)) : n \in 0..MaxLen, s \in Vals}
Numbers == {Number(x) : x \in Vals}

IsVectorized(flags, p) == p < Len(flags) /\ flags[p + 1]

RECURSIVE ParamListsFrom(_, _)
\* the argument lists the type SingleOrArray<VectorizedArgs, Parameters<Method>>
\* admits, from position p on: an array where the flag is true, a number
\* elsewhere
ParamListsFrom(flags, p) ==
    IF p >= Arity THEN {<<>>}
    ELSE {<<a>> \o rest :
            a \in (IF IsVectorized(flags, p) THEN Arrays ELSE Numbers),
            rest \in ParamListsFrom(flags, p + 1)}

ParamLists(flags) == ParamListsFrom(flags, 0)

\* the argument list with the number s at every non-vectorized position and
\* the array of length n counting up from s at every vectorized one
UniformList(flags, n, s) ==
    [p \in 1..Arity |->
        IF IsVectorized(flags, p - 1) THEN Array(Ramp(n, s)) ELSE Number(s)]

\* the argument lists of the later calls of a session
Followups(flags) == {UniformList(flags, MaxLen, s) : s \in Vals}

\* ---------------------------------------------------------------- state
VARIABLES
    metadata,        \* the registry: metadata[type][method]
    engine,          \* the ArrayVectorFunction instance, NoEngine before
    constructed,     \* the last constructor call: its arguments and what it threw
    pc,              \* "idle", or "loop" inside the for loop of the fallback
    target,          \* the target of the last call
    params,          \* the arguments of the last call
    dynamicArgs,     \* local of vectorizeSingularCall
    result,          \* local of vectorizeSingularCall
    i,               \* loop index of vectorizeSingularCall
    scalarLog,       \* invocations of the scalar method during the last call
    bulkLog,         \* invocations of a bulk override during the last call
    outcome,         \* how the last call ended
    lastDeclared,    \* history: the specialVersion last given to the decorator
                     \* for a type and property key, NoDeclaration before
    overwrote,       \* history: the latest decorator replaced a registry entry
    earlierWindow    \* history: dynamicArgs as the call before the last call
                     \* left it, <<>> when the last call is the first

vars == <<metadata, engine, constructed, pc, target, params, dynamicArgs,
          result, i, scalarLog, bulkLog, outcome, lastDeclared, overwrote,
          earlierWindow>>

NoDeclaration == [kind |-> "none", id |-> ""]

NoConstruction == [method |-> "", flags |-> <<>>, error |-> ""]

NoOutcome == [kind |-> "none", result |-> <<>>, error |-> ""]
Returned(s) == [kind |-> "returned", result |-> s, error |-> ""]
Threw(e) == [kind |-> "threw", result |-> <<>>, error |-> e]

NoCall ==
    /\ pc' = "idle"
    /\ target' = ""
    /\ params' = <<>>
    /\ dynamicArgs' = <<>>
    /\ result' = <<>>
    /\ i' = 0
    /\ scalarLog' = <<>>
    /\ bulkLog' = <<>>
    /\ outcome' = NoOutcome
    /\ earlierWindow' = <<>>

Init ==
    /\ metadata = [t \in Types |-> [m \in PropertyKeys |-> NoMetadata]]
    /\ engine = NoEngine
    /\ constructed = NoConstruction
    /\ pc = "idle"
    /\ target = ""
    /\ params = <<>>
    /\ dynamicArgs = <<>>
    /\ result = <<>>
    /\ i = 0
    /\ scalarLog = <<>>
    /\ bulkLog = <<>>
    /\ outcome = NoOutcome
    /\ lastDeclared = [t \in Types |-> [m \in PropertyKeys |-> NoDeclaration]]
    /\ overwrote = FALSE
    /\ earlierWindow = <<>>

\* ------------------------------------------------------------- registry
\* DefineMetadata keeping one entry per class, whatever the property key
DefineMetadataPerType(md, type, propertyKey, specialVersion) ==
    [md EXCEPT ![type] =
        [m \in PropertyKeys |-> StoredVersion(specialVersion, propertyKey)]]

\* Reflect.defineMetadata(vectorizedKey, specialVersion ?? default, target, propertyKey)
DefineMetadata(md, type, propertyKey, specialVersion) ==
    [md EXCEPT ![type][propertyKey] = StoredVersion(specialVersion, propertyKey)]

\* the decorator `vectorized(specialVersion)` applied to a method of a class
Declare(d) ==
    /\ pc = "idle"
    /\ metadata' = DefineMetadata(metadata, d.type, d.method, d.specialVersion)
    /\ metadata' # metadata
    /\ lastDeclared' = [lastDeclared EXCEPT ![d.type][d.method] = d.specialVersion]
    /\ overwrote' = (metadata[d.type][d.method] # NoMetadata)
    /\ NoCall
    /\ UNCHANGED <<engine, constructed>>

\* ----------------------------------------------------------- constructor
\* new ArrayVectorFunction(method, flags)
Construct(method, flags) ==
    /\ pc = "idle"
    /\ ~engine.exists
    /\ LET c == Constructor(method, flags) IN
        /\ constructed' = [method |-> method, flags |-> flags, error |-> c.error]
        /\ engine' = c.instance
    /\ NoCall
    /\ UNCHANGED <<metadata, lastDeclared, overwrote>>

\* ----------------------------------------------------------------- call
Slice(s, from, to) == [k \in 1..(to - from) |-> s[from + k]]

\* LengthsDiffer with `every` in place of `some`
LengthsDifferEvery(e, ps) ==
    LET lengths == [k \in 1..Len(e.vectorizedParameterIndices) |->
                        Len(ps[e.vectorizedParameterIndices[k] + 1].v)]
    IN \A k \in 1..Len(lengths) : lengths[k] # lengths[1]

\* lengths.some(length => length != lengths[0])
LengthsDiffer(e, ps) ==
    LET lengths == [k \in 1..Len(e.vectorizedParameterIndices) |->
                        Len(ps[e.vectorizedParameterIndices[k] + 1].v)]
    IN \E k \in 1..Len(lengths) : lengths[k] # lengths[1]

\* items[0].length
ItemsLength(e, ps) == Len(ps[e.vectorizedParameterIndices[1] + 1].v)

\* StaticArgs losing the last argument of the prefix
StaticArgsOffByOne(e, ps) == Slice(ps, 0, e.sliceIndex - 1)

\* params.slice(0, sliceIndex)
StaticArgs(e, ps) == Slice(ps, 0, e.sliceIndex)
\* DynamicArgs keeping the window of the call before, when there is one of
\* the same size
DynamicArgsKept(e, ps) ==
    IF dynamicArgs # <<>> /\ Len(dynamicArgs) = Len(ps) - e.sliceIndex
    THEN dynamicArgs
    ELSE Slice(ps, e.sliceIndex, Len(ps))

\* params.slice(sliceIndex)
DynamicArgs(e, ps) == Slice(ps, e.sliceIndex, Len(ps))

\* first statements of vectorizeSingularCall, up to the for loop
BeginSingularCall(e, ps) ==
    IF Len(e.vectorizedParameterIndices) > 1 /\ LengthsDiffer(e, ps)
    THEN /\ outcome' = Threw("Vector lengths not equal")
         /\ pc' = "idle"
         /\ dynamicArgs' = <<>>
         /\ result' = <<>>
    ELSE /\ outcome' = NoOutcome
         /\ pc' = "loop"
         /\ dynamicArgs' = DynamicArgs(e, ps)
         /\ result' = [k \in 1..ItemsLength(e, ps) |-> Hole]

\* One call is followed per configuration of registry and engine: a later
\* call starts from the same registry and engine and overwrites every local
\* of the former.
CanCall ==
    /\ pc = "idle"
    /\ outcome.kind = "none"
    /\ engine.exists

\* the body of call: the lookup, then the override or the fallback
Dispatch(t, ps) ==
    LET specializedFunction == SpecializedFunction(metadata, t, engine.method) IN
    IF specializedFunction # Undefined
    THEN LET r == ApplyBulk(specializedFunction, ps) IN
         /\ bulkLog' = <<[fn |-> specializedFunction, this |-> t, args |-> ps]>>
         /\ outcome' = IF r.threw THEN Threw(r.error) ELSE Returned(r.result)
         /\ pc' = "idle"
         /\ dynamicArgs' = <<>>
         /\ result' = <<>>
    ELSE /\ bulkLog' = <<>>
         /\ BeginSingularCall(engine, ps)

\* call validating the lengths before the lookup
CallLengthFirst(t, ps) ==
    /\ CanCall
    /\ target' = t
    /\ params' = ps
    /\ i' = 0
    /\ scalarLog' = <<>>
    /\ earlierWindow' = <<>>
    /\ IF Len(engine.vectorizedParameterIndices) > 1 /\ LengthsDiffer(engine, ps)
       THEN /\ bulkLog' = <<>>
            /\ outcome' = Threw("Vector lengths not equal")
            /\ pc' = "idle"
            /\ dynamicArgs' = <<>>
            /\ result' = <<>>
       ELSE Dispatch(t, ps)
    /\ UNCHANGED <<metadata, engine, constructed, lastDeclared, overwrote>>

\* VectorFunction.call(target, ...params)
Call(t, ps) ==
    /\ CanCall
    /\ target' = t
    /\ params' = ps
    /\ i' = 0
    /\ scalarLog' = <<>>
    /\ earlierWindow' = <<>>
    /\ Dispatch(t, ps)
    /\ UNCHANGED <<metadata, engine, constructed, lastDeclared, overwrote>>

\* a later call on the same engine is made when the call before has ended
CanCallAgain ==
    /\ pc = "idle"
    /\ outcome.kind # "none"
    /\ engine.exists

\* VectorFunction.call(target, ...params), after an earlier call
CallAgain(t, ps) ==
    /\ CanCallAgain
    /\ target' = t
    /\ params' = ps
    /\ i' = 0
    /\ scalarLog' = <<>>
    /\ earlierWindow' = dynamicArgs
    /\ Dispatch(t, ps)
    /\ UNCHANGED <<metadata, engine, constructed, lastDeclared, overwrote>>

RECURSIVE PopulatePacked(_, _, _, _, _)
\* Populate writing the k-th vectorized element at offset k of the window
PopulatePacked(e, ps, args, idx, k) ==
    IF k >= Len(e.vectorizedParameterIndices) THEN args
    ELSE LET vectorizedParameterIndex == e.vectorizedParameterIndices[k + 1]
             item == Number(ElementAt(ps[vectorizedParameterIndex + 1], idx))
         IN PopulatePacked(e, ps, [args EXCEPT ![k + 1] = item], idx, k + 1)

RECURSIVE PopulateFirstItems(_, _, _, _, _)
\* Populate reading items[0] for every vectorized position
PopulateFirstItems(e, ps, args, idx, k) ==
    IF k >= Len(e.vectorizedParameterIndices) THEN args
    ELSE LET vectorizedParameterIndex == e.vectorizedParameterIndices[k + 1]
             item == Number(ElementAt(ps[e.vectorizedParameterIndices[1] + 1], idx))
         IN PopulateFirstItems(e, ps,
                [args EXCEPT ![vectorizedParameterIndex - e.sliceIndex + 1] = item],
                idx, k + 1)

RECURSIVE Populate(_, _, _, _, _)
\* the inner for loop: dynamicArgs[index - sliceIndex] = items[k][i] for the
\* vectorized positions from the k-th (0-based) on (items[k][i] past the end
\* of items[k] is undefined)
Populate(e, ps, args, idx, k) ==
    IF k >= Len(e.vectorizedParameterIndices) THEN args
    ELSE LET vectorizedParameterIndex == e.vectorizedParameterIndices[k + 1]
             item == Number(ElementAt(ps[vectorizedParameterIndex + 1], idx))
         IN Populate(e, ps,
                [args EXCEPT ![vectorizedParameterIndex - e.sliceIndex + 1] = item],
                idx, k + 1)

\* Step walking the elements from the last to the first
StepReversed ==
    /\ pc = "loop"
    /\ i < Len(result)
    /\ LET idx == Len(result) - 1 - i
           populated == Populate(engine, params, dynamicArgs, idx, 0)
           singularMethod == GetMember(target, engine.method)
           args == StaticArgs(engine, params) \o populated
           r == ApplyScalar(singularMethod, args)
       IN
        /\ dynamicArgs' = populated
        /\ scalarLog' = Append(scalarLog, [fn |-> singularMethod, this |-> target, args |-> args])
        /\ IF r.threw
           THEN /\ outcome' = Threw(r.error)
                /\ pc' = "idle"
                /\ UNCHANGED <<result, i>>
           ELSE /\ result' = [result EXCEPT ![idx + 1] = r.value]
                /\ i' = i + 1
                /\ UNCHANGED <<outcome, pc>>
    /\ UNCHANGED <<metadata, engine, constructed, target, params, bulkLog,
                   lastDeclared, overwrote, earlierWindow>>

\* Step catching what the scalar method throws and going on
StepSwallow ==
    /\ pc = "loop"
    /\ i < Len(result)
    /\ LET populated == Populate(engine, params, dynamicArgs, i, 0)
           singularMethod == GetMember(target, engine.method)
           args == StaticArgs(engine, params) \o populated
           r == ApplyScalar(singularMethod, args)
       IN
        /\ dynamicArgs' = populated
        /\ scalarLog' = Append(scalarLog, [fn |-> singularMethod, this |-> target, args |-> args])
        /\ result' = [result EXCEPT ![i + 1] = r.value]
        /\ i' = i + 1
        /\ UNCHANGED <<outcome, pc>>
    /\ UNCHANGED <<metadata, engine, constructed, target, params, bulkLog,
                   lastDeclared, overwrote, earlierWindow>>

\* one iteration of the outer for loop of vectorizeSingularCall
Step ==
    /\ pc = "loop"
    /\ i < Len(result)
    /\ LET populated == Populate(engine, params, dynamicArgs, i, 0)
           singularMethod == GetMember(target, engine.method)
           args == StaticArgs(engine, params) \o populated
           r == ApplyScalar(singularMethod, args)
       IN
        /\ dynamicArgs' = populated
        /\ scalarLog' = Append(scalarLog, [fn |-> singularMethod, this |-> target, args |-> args])
        /\ IF r.threw
           THEN /\ outcome' = Threw(r.error)
                /\ pc' = "idle"
                /\ UNCHANGED <<result, i>>
           ELSE /\ result' = [result EXCEPT ![i + 1] = r.value]
                /\ i' = i + 1
                /\ UNCHANGED <<outcome, pc>>
    /\ UNCHANGED <<metadata, engine, constructed, target, params, bulkLog,
                   lastDeclared, overwrote, earlierWindow>>

\* the loop condition fails: return result
Return ==
    /\ pc = "loop"
    /\ i >= Len(result)
    /\ outcome' = Returned(result)
    /\ pc' = "idle"
    /\ UNCHANGED <<metadata, engine, constructed, target, params, dynamicArgs,
                   result, i, scalarLog, bulkLog, lastDeclared, overwrote,
                   earlierWindow>>

Next ==
    \/ \E d \in Decorations : Declare(d)
    \/ \E m \in MethodNames, flags \in FlagLists : Construct(m, flags)
    \/ /\ CanCall
       /\ \E t \in Types, ps \in ParamLists(engine.vectorizedParameterFlags) : Call(t, ps)
    \/ Step
    \/ Return

Spec == Init /\ [][Next]_vars

\* A session: both methods are decorated, and calls follow calls on the one
\* engine.
SessionNext ==
    \/ \E d \in SessionDecorations : Declare(d)
    \/ \E m \in MethodNames, flags \in SessionFlagLists : Construct(m, flags)
    \/ /\ CanCall
       /\ \E t \in Types, ps \in ParamLists(engine.vectorizedParameterFlags) : Call(t, ps)
    \/ /\ CanCallAgain
       /\ \E t \in Types, ps \in Followups(engine.vectorizedParameterFlags) : CallAgain(t, ps)
    \/ Step
    \/ Return

Session == Init /\ [][SessionNext]_vars

TypeOK ==
    /\ pc \in {"idle", "loop"}
    /\ outcome.kind \in {"none", "returned", "threw"}
    /\ constructed.error \in {"", "Must have at least one vectorized parameter"}
    /\ overwrote \in BOOLEAN

\* ===================================================== properties
CallMade == target # ""
Done == CallMade /\ pc = "idle"

\* the registry entry the call of this state found for its target
Declared == GetMetadata(metadata, target, engine.method)

\* a specialization resolves for the target: a function reference, or a name
\* the target has a member for
Resolves ==
    \/ Declared.kind = "function"
    \/ Declared.kind = "name" /\ Declared.id # "" /\ GetMember(target, Declared.id) # Undefined

\* what the scalar method of t gives on the idx-th elements of ps
ScalarAt(t, ps, idx) == Scalar(GetMember(t, engine.method), Row(ps, idx))

NoElementThrows(t, ps) ==
    \A idx \in 0..(BulkLength(ps) - 1) : ~ScalarAt(t, ps, idx).threw

\* ps.map(f): the scalar method applied to the idx-th elements, in order
ScalarMap(t, ps) == [k \in 1..BulkLength(ps) |-> ScalarAt(t, ps, k - 1).value]

\* the bulk overrides that compute what the scalar method of the type does
CorrectSpecializations(type) ==
    CASE type = "Subtraction" -> {"Subtraction.calc_vectorized"}
      [] type = "Multiplication" ->
            {"Multiplication.calc_vectorized", "Multiplication.calc_static"}
      [] type = "Checked" -> {"Checked.calc_vectorized"}
      [] OTHER -> {}

\* the outcome of the call of this state as its bulk override produced it
BulkOutcome ==
    LET r == ApplyBulk(bulkLog[1].fn, params) IN
    IF r.threw THEN Threw(r.error) ELSE Returned(r.result)

\* C1: a finished call with vectorized arguments of one length n, on which
\* the scalar method throws for no element, has returned the sequence of
\* length n whose i-th element is the scalar method applied to the i-th
\* elements; on the fallback path, and on the specialized path when the
\* override is a correct one for the target.
C1_ElementwiseMap ==
    (/\ Done
     /\ SameLengths(params)
     /\ NoElementThrows(target, params)
     /\ (bulkLog = <<>> \/ bulkLog[1].fn \in CorrectSpecializations(target)))
    => (/\ outcome = Returned(ScalarMap(target, params))
        /\ Len(outcome.result) = BulkLength(params))

C1_Witness ==
    /\ Done
    /\ bulkLog = <<>>
    /\ target = "Subtraction"
    /\ Len(engine.vectorizedParameterIndices) >= 2
    /\ outcome.kind = "returned"
    /\ Len(outcome.result) = 2
    /\ outcome.result[1] # outcome.result[2]

C3_MismatchRejected ==
    (/\ CallMade
     /\ ~Resolves
     /\ Len(engine.vectorizedParameterIndices) >= 2
     /\ ~SameLengths(params))
    => (/\ pc = "idle"
        /\ outcome = Threw("Vector lengths not equal")
        /\ scalarLog = <<>>
        /\ bulkLog = <<>>)

C3_Witness ==
    /\ Done
    /\ ~Resolves
    /\ Len(engine.vectorizedParameterIndices) >= 2
    /\ ~SameLengths(params)
    /\ outcome.kind = "threw"
    /\ scalarLog = <<>>

C5_MismatchAlwaysThrows ==
    (/\ Done
     /\ (~Resolves \/ Declared.kind = "function")
     /\ Len(engine.vectorizedParameterIndices) = 2
     /\ ~SameLengths(params))
    => outcome.kind = "threw"

NoFlagSet(flags) == \A p \in 1..Len(flags) : ~flags[p]

\* C6: a constructor call whose descriptor marks no position as vectorized
\* (empty, or all flags false) threw the configuration error and left no
\* engine; every engine that exists has a vectorized position, and every call
\* was made on an engine that exists.
C6_NoEngineWithoutVectorizedPosition ==
    /\ (constructed.method # "" /\ NoFlagSet(constructed.flags))
        => (/\ constructed.error = "Must have at least one vectorized parameter"
            /\ ~engine.exists
            /\ ~CallMade)
    /\ engine.exists
        => (/\ ~NoFlagSet(engine.vectorizedParameterFlags)
            /\ Len(engine.vectorizedParameterIndices) >= 1)
    /\ CallMade => engine.exists

C6_Witness ==
    /\ constructed.method # ""
    /\ Len(constructed.flags) >= 2
    /\ NoFlagSet(constructed.flags)
    /\ constructed.error # ""
    /\ ~engine.exists

\* the lowest position (0-based) the descriptor marks as vectorized
LowestVectorized(flags) ==
    CHOOSE p \in 0..(Len(flags) - 1) :
        flags[p + 1] /\ \A q \in 0..(p - 1) : ~flags[q + 1]

\* C7: every invocation of the scalar method on the fallback path receives
\* as many arguments as the call, and at each position before the lowest
\* vectorized position the argument of the call itself.
C7_StaticPrefixPassed ==
    \A k \in 1..Len(scalarLog) :
        /\ Len(scalarLog[k].args) = Len(params)
        /\ \A p \in 1..LowestVectorized(engine.vectorizedParameterFlags) :
                scalarLog[k].args[p] = params[p]

C7_Witness ==
    /\ Done
    /\ LowestVectorized(engine.vectorizedParameterFlags) = 2
    /\ Len(scalarLog) = 2
    /\ params[1] # params[2]
    /\ outcome.kind = "returned"

FirstThrow(t, ps) ==
    CHOOSE idx \in 0..(BulkLength(ps) - 1) :
        /\ ScalarAt(t, ps, idx).threw
        /\ \A j \in 0..(idx - 1) : ~ScalarAt(t, ps, j).threw

\* what the elementwise fallback owes for target t and arguments ps
FallbackOutcome(t, ps) ==
    IF Len(engine.vectorizedParameterIndices) >= 2 /\ ~SameLengths(ps)
    THEN Threw("Vector lengths not equal")
    ELSE IF NoElementThrows(t, ps) THEN Returned(ScalarMap(t, ps))
    ELSE Threw(ScalarAt(t, ps, FirstThrow(t, ps)).error)

\* C8: when the registry entry found for the target is a name (given, or the
\* default <method>_vectorized) and the target has no member of that name,
\* no bulk override is invoked, no TypeError arises, and the call ends as the
\* elementwise fallback does.
C8_MissingMemberFallsBack ==
    (/\ CallMade
     /\ Declared.kind = "name"
     /\ GetMember(target, Declared.id) = Undefined)
    => (/\ bulkLog = <<>>
        /\ outcome.error # "TypeError"
        /\ (pc = "loop" \/ outcome.kind # "none")
        /\ (Done => outcome = FallbackOutcome(target, params)))

C8_Witness ==
    /\ Done
    /\ target = "Subtraction"
    /\ Declared = NameVersion("calc_vectorized")
    /\ bulkLog = <<>>
    /\ Len(scalarLog) = 2
    /\ outcome.kind = "returned"

\* C9: a specialization declared by name is the member of that name of the
\* target of the call (Multiplication and its subtype Checked each get their
\* own calc_vectorized from the one declaration on Multiplication); one
\* declared by function reference is that function for every target.
C9_LateAndEarlyBinding ==
    CallMade =>
        /\ (Declared.kind = "name" /\ GetMember(target, Declared.id) # Undefined)
            => (/\ Len(bulkLog) = 1
                /\ bulkLog[1].fn = GetMember(target, Declared.id)
                /\ bulkLog[1].this = target)
        /\ (Declared = NameVersion("calc_vectorized")
                /\ target \in {"Multiplication", "Checked"})
            => (/\ Len(bulkLog) = 1
                /\ bulkLog[1].fn = target \o ".calc_vectorized")
        /\ Declared.kind = "function"
            => (/\ Len(bulkLog) = 1
                /\ bulkLog[1].fn = Declared.id
                /\ bulkLog[1].this = target)

C9_Witness ==
    /\ Done
    /\ target = "Checked"
    /\ metadata["Checked"]["calc"] = NoMetadata
    /\ metadata["Multiplication"]["calc"] = NameVersion("calc_vectorized")
    /\ Len(bulkLog) = 1
    /\ bulkLog[1].fn = "Checked.calc_vectorized"

\* the numbers of the idx-th elements of ps, as arguments
RowArgs(ps, idx) == [k \in 1..Len(ps) |-> Number(ElementAt(ps[k], idx))]

\* C10: on the fallback path, past the length check, when the scalar method
\* throws first at element k: the scalar method is invoked for the indices
\* 0, 1, ... in order and never for one greater than k, no result is ever
\* returned, and the call ends with that very error after k + 1 invocations.
C10_ScalarErrorPropagates ==
    (/\ CallMade
     /\ ~Resolves
     /\ ~(Len(engine.vectorizedParameterIndices) >= 2 /\ ~SameLengths(params))
     /\ ~NoElementThrows(target, params))
    => LET k == FirstThrow(target, params) IN
        /\ Len(scalarLog) <= k + 1
        /\ \A j \in 1..Len(scalarLog) : scalarLog[j].args = RowArgs(params, j - 1)
        /\ outcome.kind # "returned"
        /\ Done => (/\ outcome = Threw(ScalarAt(target, params, k).error)
                    /\ Len(scalarLog) = k + 1)

C10_Witness ==
    /\ Done
    /\ ~Resolves
    /\ outcome = Threw("RangeError")
    /\ Len(scalarLog) = 1
    /\ Len(result) = 2

\* the call of this state is on the fallback path, past the length check
InFallbackLoop ==
    /\ CallMade
    /\ ~Resolves
    /\ ~(Len(engine.vectorizedParameterIndices) >= 2 /\ ~SameLengths(params))

\* C11: on the fallback path with common length n, the scalar method is
\* invoked on the target for the indices 0, 1, ... in this order, one
\* invocation per index; while the loop stands at index i exactly i
\* invocations have completed, the positions below i of the output hold their
\* results and the others are still empty; a call that returns has made
\* exactly n invocations and returns the result of invocation i at position i.
C11_AscendingOrder ==
    InFallbackLoop =>
        LET n == BulkLength(params) IN
        /\ Len(scalarLog) <= n
        /\ \A j \in 1..Len(scalarLog) :
                /\ scalarLog[j].args = RowArgs(params, j - 1)
                /\ scalarLog[j].this = target
                /\ scalarLog[j].fn = GetMember(target, engine.method)
        /\ pc = "loop" =>
                /\ Len(scalarLog) = i
                /\ Len(result) = n
                /\ \A j \in 1..n :
                        result[j] = IF j <= i THEN ScalarAt(target, params, j - 1).value
                                    ELSE Hole
        /\ outcome.kind = "returned" =>
                /\ Len(scalarLog) = n
                /\ Len(outcome.result) = n
                /\ \A j \in 1..n :
                        outcome.result[j] = ScalarAt(target, params, j - 1).value

C11_Witness ==
    /\ InFallbackLoop
    /\ pc = "loop"
    /\ i = 1
    /\ Len(scalarLog) = 1
    /\ Len(result) = 2
    /\ result[1] # Hole
    /\ result[2] = Hole
    /\ RowArgs(params, 0) # RowArgs(params, 1)

\* C12: on the fallback path the j-th invocation of the scalar method
\* receives, at every position from the lowest vectorized one on, the j-th
\* element of the array passed there if the position is vectorized, and the
\* very argument of the call if it is not (as for the flags [true, false,
\* true], whose position 1 lies inside the dynamic window).
C12_DynamicWindowPassThrough ==
    \A j \in 1..Len(scalarLog) :
        \A p \in LowestVectorized(engine.vectorizedParameterFlags)..(Len(params) - 1) :
            /\ p + 1 <= Len(scalarLog[j].args)
            /\ scalarLog[j].args[p + 1] =
                    IF IsVectorized(engine.vectorizedParameterFlags, p)
                    THEN Number(params[p + 1].v[j])
                    ELSE params[p + 1]

C12_Witness ==
    /\ Done
    /\ engine.vectorizedParameterFlags = <<TRUE, FALSE, TRUE>>
    /\ outcome.kind = "returned"
    /\ Len(scalarLog) = 2
    /\ params[1].v # params[3].v
    /\ scalarLog[2].args[2] = params[2]

RECURSIVE IsA(_, _)
\* t is the class type or one of its subclasses
IsA(t, type) == t # NoParent /\ (t = type \/ IsA(Parent(t), type))

\* the override the decorator argument v, given for the property key m,
\* stands for on target t
OverrideGiven(v, t, m) ==
    IF v.kind = "function" THEN v.id
    ELSE GetMember(t, StoredVersion(v, m).id)

\* C13: the registry entry of every (type, property key) pair that was ever
\* decorated is the one of the latest decorator applied to that pair, and a
\* call on a target of such a type has invoked the override that decorator
\* gave (none when the target has no member of the name given); a decorator
\* applied to one pair leaves what resolves for every other property key, and
\* for every type that is not the decorated class or a subclass of it, as it
\* was.
C13_LastDeclarationWins ==
    /\ [](\A t \in Types, m \in PropertyKeys :
            lastDeclared[t][m] # NoDeclaration
                => metadata[t][m] = StoredVersion(lastDeclared[t][m], m))
    /\ []((CallMade /\ lastDeclared[target][engine.method] # NoDeclaration)
            => LET override == OverrideGiven(lastDeclared[target][engine.method],
                                             target, engine.method)
               IN IF override # Undefined
                  THEN bulkLog = <<[fn |-> override, this |-> target, args |-> params]>>
                  ELSE bulkLog = <<>>)
    /\ [][\A d \in SessionDecorations :
            Declare(d) =>
                \A t \in Types, m \in PropertyKeys :
                    (m # d.method \/ ~IsA(t, d.type))
                        => /\ GetMetadata(metadata', t, m) = GetMetadata(metadata, t, m)
                           /\ SpecializedFunction(metadata', t, m)
                                = SpecializedFunction(metadata, t, m)]_vars

C13_Witness ==
    /\ Done
    /\ overwrote
    /\ target = "Multiplication"
    /\ metadata["Subtraction"]["calc"] = NoMetadata
    /\ metadata["Multiplication"]["norm"] = NameVersion("calc_vectorized")
    /\ lastDeclared["Multiplication"]["calc"] = FunctionVersion("Multiplication.calc_static")
    /\ Len(bulkLog) = 1
    /\ bulkLog[1].fn = "Multiplication.calc_static"

\* C14: whatever calls were made before on the engine, a call on the
\* fallback path invokes the scalar method on the elements of its own
\* arguments only and ends as the fallback on its own target and arguments
\* does; while a call runs, its target and its arguments, arrays included,
\* stay as they were passed; and an engine, once constructed, keeps its
\* method, flags, indices and sliceIndex.
C14_NothingOutlivesCall ==
    /\ []((CallMade /\ ~Resolves)
            => /\ \A j \in 1..Len(scalarLog) :
                    /\ scalarLog[j].this = target
                    /\ scalarLog[j].args = RowArgs(params, j - 1)
               /\ Done => outcome = FallbackOutcome(target, params))
    /\ [][/\ pc = "loop" => (params' = params /\ target' = target)
          /\ engine.exists => engine' = engine]_vars

C14_Witness ==
    /\ Done
    /\ ~Resolves
    /\ engine.vectorizedParameterFlags = <<TRUE, FALSE, TRUE>>
    /\ Len(earlierWindow) = Len(params)
    /\ earlierWindow[2] # params[2]
    /\ outcome.kind = "returned"
    /\ Len(scalarLog) = MaxLen
    /\ scalarLog[1].args[2] = params[2]

====
